---- MODULE Spec2Model ----
(***************************************************************************)
(* Model of the gatecheck request of the payment-gateway detector.         *)
(*   prog = "app"  : src/app.py  gatecheck -> detect_technologies_with_    *)
(*                   checkout -> find_checkout_urls / link analysis /      *)
(*                   asyncio.gather of detect_technologies                 *)
(*   prog = "main" : src/main.py gatecheck -> scan_url                     *)
(* Strings are sequences of tokens; a token is a piece of text that the    *)
(* code's tests (startswith, urlparse, re.search) never look inside.       *)
(* One attempt of detect_technologies is two steps, the connect and the    *)
(* rest of the try body: the attempts of different URLs share no state,    *)
(* so the awaits inside the body commute with the steps of other visits.   *)
(*                                                                         *)
(* Spec, SpecGate : one gatecheck request; reports are sets of names.      *)
(* SpecCall       : one call of detect_technologies (app.py), of scan_url  *)
(*                  from the loaded page on (main.py), or two calls of     *)
(*                  detect_technologies_from_text (detectors.py), with     *)
(*                  the lists as the loops build them, the collection      *)
(*                  step that raises, and any max_retries argument.        *)
(* SpecFanout     : the slice of all_urls for every discovered list.       *)
(* SpecMatch      : the matchers of app.py, main.py and detectors.py       *)
(*                  called in turn on one html and one probe result.       *)
(***************************************************************************)
EXTENDS Naturals, Integers, Sequences, FiniteSets, TLC

VARIABLES
    prog,            \* which module serves the request: "app" or "main"
    raw,             \* the url query parameter as received
    url,             \* the url local of gatecheck after scheme normalisation
    pc,              \* position of the request handler
    sitemap_idx,     \* index of the next entry of sitemap_urls
    checkout_urls,   \* checkout_urls of find_checkout_urls / _with_checkout
    all_urls,        \* all_urls of detect_technologies_with_checkout
    vpc,             \* position of each gathered detect_technologies task
    attempt,         \* loop variable attempt of each task
    technologies,    \* local technologies of each task
    results,         \* results of asyncio.gather, one slot per task
    acquired,        \* browser handles returned by connect_over_cdp
    closed,          \* browser handles whose close() has completed
    connect_failed,  \* number of connect_over_cdp calls that raised
    fetched,         \* requests.get calls issued (sitemap / robots)
    navigated,       \* whether any page.goto call was issued
    response,        \* the HTTP response of the request
    unit,            \* the function a single call exercises, "none" in a request
    registry,        \* TECH_PATTERNS of the module of that function
    bundle,          \* what the page of the call holds, field by field
    js_globals,      \* the js_globals dict: the probe keys that are true
    budget,          \* the max_retries argument of the call
    tries,           \* loop variable attempt of the call
    cpc,             \* position of the call
    fault,           \* the collection step that raised in the current attempt
    detected,        \* the list technologies (app.py) / detected_tech (main.py)
    waits,           \* arguments of the asyncio.sleep calls made so far
    returned,        \* the values returned so far, one per completed call
    overrides,       \* the overrides in effect in the document the page shows
    landed,          \* response of page.goto in the current attempt
    requests,        \* the requests the page has issued, in order
    network_insights, \* local network_insights of scan_url (main.py)
    errors           \* local errors of scan_url (main.py)

\* the variables of a single call
call == <<unit, registry, bundle, js_globals, budget, tries, cpc, fault, detected,
          waits, returned, overrides, landed, requests, network_insights, errors>>

\* the variables of a request
request == <<prog, raw, url, pc, sitemap_idx, checkout_urls, all_urls, vpc, attempt,
             technologies, results, acquired, closed, connect_failed, fetched,
             navigated, response>>

vars == <<prog, raw, url, pc, sitemap_idx, checkout_urls, all_urls, vpc, attempt,
          technologies, results, acquired, closed, connect_failed, fetched,
          navigated, response, unit, registry, bundle, js_globals, budget, tries,
          cpc, fault, detected, waits, returned, overrides, landed, requests,
          network_insights, errors>>

(***************************************************************************)
(* Bounds of the model                                                     *)
(***************************************************************************)
\* most <loc> entries of a fetched sitemap
MaxLocs == 1
\* most lines of a fetched robots.txt
MaxLines == 1
\* most links of the page the link analysis loads
MaxLinks == 2
\* longest raw url parameter, in tokens, of the input-validation specification
MaxUrlLen == 3
\* largest max_retries argument of a single call of detect_technologies
MaxRetriesArg == 3
\* most checkout urls the discovery hands to the slice of all_urls
MaxFound == 6

(***************************************************************************)
(* Program constants                                                       *)
(***************************************************************************)
max_retries == 2
FanoutLimit == 2
\* await asyncio.sleep(2)
RetrySleep == 2

None == "None"

(***************************************************************************)
(* Strings                                                                 *)
(***************************************************************************)
HttpPrefixes == {"http://", "https://"}

\* s.startswith(("http://", "https://"))
StartsWithHttp(s) == Len(s) > 0 /\ s[1] \in HttpPrefixes

\* gatecheck: prefix "https://" to an input without http(s) scheme
Normalise(s) == IF StartsWithHttp(s) THEN s ELSE <<"https://">> \o s

RECURSIVE NetlocOf(_)
\* the authority part of urlsplit: everything up to the next "/" or "?"
NetlocOf(s) ==
    IF s = <<>> \/ Head(s) \in {"/", "?"} THEN <<>>
    ELSE IF Head(s) = "http://" THEN <<"http:">>
    ELSE IF Head(s) = "https://" THEN <<"https:">>
    ELSE <<Head(s)>> \o NetlocOf(Tail(s))

\* urllib.parse.urlparse, applied to a normalised url
urlparse(u) ==
    IF StartsWithHttp(u)
    THEN [scheme |-> IF u[1] = "https://" THEN "https" ELSE "http",
          netloc |-> NetlocOf(Tail(u))]
    ELSE [scheme |-> "", netloc |-> <<>>]

\* the test with "and" for "or"
InvalidUrlAnd(u) == urlparse(u).scheme = "" /\ urlparse(u).netloc = <<>>
\* gatecheck: not parsed_url.scheme or not parsed_url.netloc
InvalidUrl(u) == urlparse(u).scheme = "" \/ urlparse(u).netloc = <<>>

\* s[:n]
Take(s, n) == SubSeq(s, 1, IF Len(s) < n THEN Len(s) ELSE n)

RECURSIVE SeqsUpTo(_, _)
SeqsUpTo(S, n) ==
    IF n = 0 THEN {<<>>}
    ELSE LET shorter == SeqsUpTo(S, n - 1)
         IN  shorter \cup {Append(s, x) : s \in shorter, x \in S}


(***************************************************************************)
(* The site as the environment serves it                                   *)
(***************************************************************************)
CheckoutPage == <<"https://", "a", "/", "checkout", "/">>
CartPage == <<"https://", "a", "/", "cart", "/">>
CrossOriginCart == <<"https://", "b", "/", "cart", "/">>
OtherPage == <<"https://", "a", "/", "about">>

\* <loc> texts a sitemap may list
SitemapLocs == {CartPage, OtherPage}
SitemapBodies == SeqsUpTo(SitemapLocs, MaxLocs)

\* lines a robots.txt may hold
RobotsLines == {<<"Disallow:", " ", "/", "order", "/">>,
                <<"Allow:", " ", "/", "order", "/">>}
RobotsBodies == SeqsUpTo(RobotsLines, MaxLines)

\* a, button and input[type=submit] elements of the requested page
PageLinks == {[text |-> <<"Checkout">>, href |-> CheckoutPage],
              [text |-> <<"Cart">>, href |-> CrossOriginCart],
              [text |-> <<"Buy", " ", "now">>, href |-> <<"/", "order", "/">>],
              [text |-> <<"About">>, href |-> OtherPage]}
LinkLists == SeqsUpTo(PageLinks, MaxLinks)

\* url parameters of the requests of the main specification: a checkout page
\* given without scheme, and a parameter without host
InputUrls == {<<"a", "/", "checkout", "/">>, <<"/", "a">>}

\* url parameters of the input-validation specification
UrlTokens == {"http://", "https://", "/", "?", "a"}
RawInputs == SeqsUpTo(UrlTokens, MaxUrlLen)

(***************************************************************************)
(* find_checkout_urls (app.py)                                             *)
(***************************************************************************)
sitemap_urls == <<"sitemap.xml", "sitemap_index.xml">>

PathKeywords == {"order", "checkout", "pricing", "buy", "subscribe", "cart", "payment"}

\* re.search(r"/(order|checkout|pricing|buy|subscribe|cart|payment)/", s)
HasCheckoutSegment(s) ==
    \E i \in 1..(Len(s) - 2) :
        /\ s[i] \in {"/"} \cup HttpPrefixes
        /\ s[i + 1] \in PathKeywords
        /\ s[i + 2] = "/"

\* the list comprehension over root.findall(...loc)
SitemapMatches(body) == SelectSeq(body, HasCheckoutSegment)

RECURSIVE LastField(_)
\* line.split(" ")[-1]
LastField(line) ==
    IF \A i \in DOMAIN line : line[i] # " " THEN line
    ELSE LastField(Tail(line))

RECURSIVE lstrip(_)
\* u.lstrip('/')
lstrip(s) == IF s # <<>> /\ Head(s) = "/" THEN lstrip(Tail(s)) ELSE s

RECURSIVE rstrip(_)
\* base_url.rstrip('/')
rstrip(s) == IF s # <<>> /\ s[Len(s)] = "/" THEN rstrip(SubSeq(s, 1, Len(s) - 1)) ELSE s

\* the two list comprehensions over response.text.splitlines()
RobotsMatches(body, base_url) ==
    LET Wanted(line) == (\E i \in DOMAIN line : line[i] = "Disallow:")
                        /\ HasCheckoutSegment(line)
        picked == SelectSeq(body, Wanted)
        Abs(u) == IF StartsWithHttp(u) THEN u
                  ELSE rstrip(base_url) \o <<"/">> \o lstrip(u)
    IN  [i \in DOMAIN picked |-> Abs(LastField(picked[i]))]

\* [u for u in checkout_urls if u.startswith(("http://", "https://"))]
OnlyHttp(urls) == SelectSeq(urls, StartsWithHttp)

(***************************************************************************)
(* Link analysis (app.py, detect_technologies_with_checkout)               *)
(***************************************************************************)
LinkKeywords == {"buy", "pricing", "subscribe", "checkout", "cart", "order", "payment"}

\* str.lower() on the tokens link texts are made of
Lower(tok) == CASE tok = "Checkout" -> "checkout"
                [] tok = "Buy" -> "buy"
                [] tok = "Cart" -> "cart"
                [] tok = "About" -> "about"
                [] OTHER -> tok

\* await link.inner_text() and re.search(r"buy|pricing|...", text.lower())
IsCheckoutText(text) ==
    text # <<>> /\ \E i \in DOMAIN text : Lower(text[i]) \in LinkKeywords

\* hrefs of the links whose text is a checkout keyword, then the http filter
LinkMatches(links) ==
    LET Wanted(l) == IsCheckoutText(l.text)
        picked == SelectSeq(links, Wanted)
        hrefs == [i \in DOMAIN picked |-> picked[i].href]
        Usable(u) == u # <<>> /\ StartsWithHttp(u)
    IN  SelectSeq(hrefs, Usable)

(***************************************************************************)
(* Signatures and matching                                                 *)
(***************************************************************************)
\* the signatures the model carries, each pattern a token sequence
TECH_PATTERNS ==
    [Stripe |-> << <<"js.stripe", ".com">>, <<"data-stripe">> >>,
     PayPal |-> << <<"paypalobjects", ".com">>, <<"paypal.", "Buttons">> >>]

Techs == DOMAIN TECH_PATTERNS

\* pattern.search(text)
Search(pattern, text) ==
    \E i \in 1..(Len(text) - Len(pattern) + 1) :
        SubSeq(text, i, i + Len(pattern) - 1) = pattern

RECURSIVE Join(_, _)
\* sep.join(parts)
Join(parts, sep) ==
    IF parts = <<>> THEN <<>>
    ELSE IF Len(parts) = 1 THEN parts[1]
    ELSE parts[1] \o sep \o Join(Tail(parts), sep)

\* the key of js_globals the elif chain reads for a technology (app.py)
GlobalKey == [Stripe |-> "hasStripe", PayPal |-> "hasPayPal"]

\* all_content of detect_technologies (app.py)
AllContent(page) ==
    page.html \o Join(page.script_urls, <<" ">>) \o Join(page.inline_scripts, <<" ">>)
              \o Join(page.data_attrs, <<" ">>)

\* the scan loop of app.py: the technologies it appends, as a set
ScanContent(page) ==
    {tech \in Techs :
        \/ \E i \in DOMAIN TECH_PATTERNS[tech] :
               Search(TECH_PATTERNS[tech][i], AllContent(page))
        \/ GlobalKey[tech] \in page.js_globals}

\* key.replace("has", "") of main.py detect_technologies
GlobalName(key) == CASE key = "hasStripe" -> "Stripe"
                     [] key = "hasPayPal" -> "PayPal"
                     [] key = "hasShopifyPayments" -> "ShopifyPayments"
                     [] OTHER -> key

\* main.py detect_technologies: patterns on the html, then the true globals
MainDetect(page) ==
    {tech \in Techs : \E i \in DOMAIN TECH_PATTERNS[tech] :
                          Search(TECH_PATTERNS[tech][i], page.html)}
    \cup {GlobalName(key) : key \in page.js_globals}

\* what a loaded page may hold
PlainPage == [html |-> <<"<html>", "</html>">>, script_urls |-> <<>>,
              inline_scripts |-> <<>>, data_attrs |-> <<>>, js_globals |-> {}]
StripePage == [html |-> <<"<html>", "</html>">>,
               script_urls |-> << <<"https://", "js.stripe", ".com", "/", "v3">> >>,
               inline_scripts |-> <<>>, data_attrs |-> <<>>, js_globals |-> {"hasStripe"}]
PayPalPage == [html |-> <<"<html>", "paypal.", "Buttons", "</html>">>, script_urls |-> <<>>,
               inline_scripts |-> <<>>, data_attrs |-> <<>>, js_globals |-> {}]
Pages == {PlainPage, StripePage, PayPalPage}

(***************************************************************************)
(* The matchers as the code runs them: lists, in the order of the loops    *)
(***************************************************************************)
\* TECH_PATTERNS of main.py, as far as the model carries it
MAIN_TECH_PATTERNS ==
    [Stripe |-> << <<"js.stripe", ".com">>, <<"data-stripe">> >>,
     PayPal |-> << <<"paypalobjects", ".com">>, <<"paypal.", "Buttons">> >>,
     Shopify |-> << <<"shopify", ".com">>, <<"data-shopify">> >>]

\* the order of the dict literals
ItemsOrder == <<"Stripe", "PayPal", "Shopify">>

\* the technologies in the order TECH_PATTERNS.items() yields them
items(reg) ==
    LET Held(tech) == tech \in DOMAIN reg
    IN  SelectSeq(ItemsOrder, Held)

\* the elements of a list
Range(l) == {l[i] : i \in DOMAIN l}

\* the list holds no element twice
NoDuplicates(l) == \A i, j \in DOMAIN l : i # j => l[i] # l[j]

\* the list as it is, without the conversion to a set
ListKept(l) == {l}
\* list(set(l)): the elements of l once each, in an order the set decides
ListOfSet(l) ==
    {s \in SeqsUpTo(Range(l), Cardinality(Range(l))) :
        Len(s) = Cardinality(Range(l)) /\ Range(s) = Range(l)}

\* the patterns of a list that pattern.search(text) finds, in list order
Found(patterns, text) ==
    LET Hit(pattern) == Search(pattern, text)
    IN  SelectSeq(patterns, Hit)

\* the elif chain: tech == "Stripe" and js_globals.get("hasStripe"), ...
ProbeTrue(tech, globals) ==
    tech \in DOMAIN GlobalKey /\ GlobalKey[tech] \in globals

\* what one iteration of the scan loop of app.py appends to technologies
Appended(reg, tech, content, globals) ==
    LET n == Len(Found(reg[tech], content))
             + (IF ProbeTrue(tech, globals) THEN 1 ELSE 0)
    IN  [i \in 1..n |-> tech]

RECURSIVE ScanLoop(_, _, _, _)
\* the scan loop of app.py over the technologies of order
ScanLoop(reg, order, content, globals) ==
    IF order = <<>> THEN <<>>
    ELSE Appended(reg, Head(order), content, globals)
             \o ScanLoop(reg, Tail(order), content, globals)

\* the probe keys of main.py whose names the model carries, in dict order
ProbeOrder == <<"hasStripe", "hasPayPal", "hasShopifyPayments">>

RECURSIVE AddGlobals(_, _, _)
\* for key, value in js_globals.items(): append the name if it is not there
AddGlobals(found, keys, globals) ==
    IF keys = <<>> THEN found
    ELSE LET name == GlobalName(Head(keys))
             next == IF Head(keys) \in globals /\ name \notin Range(found)
                     THEN Append(found, name) ELSE found
         IN  AddGlobals(next, Tail(keys), globals)

\* detected_tech of main.py after the loop over the html
HtmlDetected(reg, html) ==
    LET Some(tech) == Found(reg[tech], html) # <<>>
    IN  SelectSeq(items(reg), Some)

\* detect_technologies of main.py
MainDetectList(reg, html, globals) ==
    AddGlobals(HtmlDetected(reg, html), ProbeOrder, globals)

\* combined_text of detect_technologies_from_text
CombinedText(html, network_snippets) == html \o Join(network_snippets, <<" ">>)

\* matches of detect_technologies_from_text for one technology
Matches(reg, tech, text, globals) ==
    Found(reg[tech], text)
        \o (IF tech \in globals THEN << <<"JS global detected">> >> ELSE <<>>)

\* the keys of results, in insertion order
ResultKeys(reg, text, globals) ==
    LET Some(tech) == Matches(reg, tech, text, globals) # <<>>
    IN  SelectSeq(items(reg), Some)

\* the dicts detect_technologies_from_text may return: results[tech] is
\* list(set(matches))
ResultDicts(reg, text, globals) ==
    LET keys == Range(ResultKeys(reg, text, globals))
    IN  {f \in [keys -> UNION {ListOfSet(Matches(reg, t, text, globals)) : t \in keys}] :
            \A t \in keys : f[t] \in ListOfSet(Matches(reg, t, text, globals))}

\* the loop taking each pattern off its list as it tests it
RegistryDrained(reg) == [tech \in DOMAIN reg |-> <<>>]
\* TECH_PATTERNS after a loop over TECH_PATTERNS.items(): the loops only read
RegistryAfterScan(reg) == reg

\* js_globals.pop(tech, None) for js_globals.get(tech)
GlobalsAfterPop(globals, reg) == globals \ DOMAIN reg
\* js_globals after the calls js_globals.get(tech) of one matcher call
GlobalsAfterGet(globals, reg) == globals

(***************************************************************************)
(* What the page of a single call may hold, field by field                 *)
(***************************************************************************)
Evidence(html, script_urls, inline_scripts, data_attrs, network_snippets) ==
    [html |-> html, script_urls |-> script_urls, inline_scripts |-> inline_scripts,
     data_attrs |-> data_attrs, network_snippets |-> network_snippets]

\* no page loaded
NoBundle == Evidence(<<>>, <<>>, <<>>, <<>>, <<>>)
PlainBundle == Evidence(<<"<html>", "</html>">>, <<>>, <<>>, <<>>, <<>>)
\* two rules of Stripe match the html
StripeTwice == Evidence(<<"<html>", "js.stripe", ".com", "data-stripe", "</html>">>,
                        <<>>, <<>>, <<>>, <<>>)
\* a rule of PayPal matches the html
PayPalHtml == Evidence(<<"<html>", "paypal.", "Buttons", "</html>">>, <<>>, <<>>, <<>>, <<>>)
\* a rule of Stripe matches inside one script url
StripeScript == Evidence(<<"<html>", "</html>">>,
                         << <<"https://", "js.stripe", ".com", "/", "v3">> >>,
                         <<>>, <<>>, <<>>)
\* the last script url ends in "paypal.", the first inline script starts "Buttons"
SplitScripts == Evidence(<<"<html>", "</html>">>,
                         << <<"https://", "x", "/", "paypal.">> >>,
                         << <<"Buttons", " ", "=", "1">> >>, <<>>, <<>>)
\* the html ends in "paypal.", the first network snippet starts "Buttons"
SplitSnippet == Evidence(<<"<p>", "paypal.">>, <<>>, <<>>, <<>>,
                         << <<"Buttons", " ", "=", "1">> >>)
Bundles == {PlainBundle, StripeTwice, PayPalHtml, StripeScript, SplitScripts, SplitSnippet}

\* results of the in-page probe of app.py, for the technologies the model holds
AppProbes == {{}, {"hasStripe"}, {"hasStripe", "hasPayPal"}}
\* results of the in-page probe of main.py
MainProbes == AppProbes \cup {{"hasShopifyPayments"}}
\* js_globals arguments of detect_technologies_from_text
DetectorGlobals == {{}, {"Stripe"}, {"hasStripe"}}

\* the steps of an attempt of app.py that may raise
AppFaults == {"none", "goto", "status", "inner_text", "click", "checkout_links",
              "js_globals", "close"}
\* the steps of scan_url after the page has loaded that may raise
MainFaults == {"none", "js_globals", "inner_text", "click"}
\* the faults of app.py that let the attempt reach the scan loop: link.click()
\* is inside try/except, browser.close() comes after the loop
ReachesScan == {"none", "click", "close"}

\* the scripts stealth_async(context) registers on the context: they run in
\* every document of its pages before the scripts of the document
StealthScripts == {"stealth"}

\* a document of a page of the context when its first script runs
NewDocument(init_scripts) == init_scripts

\* page.evaluate(script): the script runs once, in the document the page shows
Evaluate(document, script) == document \cup {script}

\* the document of the new page after the canvas override was evaluated,
\* which is the document page.goto leaves
DocumentAtGoto == Evaluate(NewDocument(StealthScripts), "canvas")

\* the document page.goto loads
DocumentAfterGoto == NewDocument(StealthScripts)

\* no response of page.goto: not called yet, it raised, or it returned None
NoLanding == [status |-> 0, challenge |-> FALSE]

\* the responses of page.goto: a page or an anti-bot challenge interstitial,
\* each with a success or an error status
Landings == {[status |-> 200, challenge |-> FALSE], [status |-> 200, challenge |-> TRUE],
             [status |-> 403, challenge |-> TRUE], [status |-> 404, challenge |-> FALSE]}

\* what page.goto returns: a response, or None
Responses == Landings \cup {NoLanding}

\* every return value of page.goto passing the check
LoadedAny == Responses

\* the return values that pass `not response or response.status >= 400`
Loaded == {r \in Responses : ~(r = NoLanding \/ r.status >= 400)}

\* the requests a page issues while page.goto loads it
NavRequests == {<<"document">>, <<"document", "script">>}

\* the requests the clicks on its checkout links issue
ClickRequests == {<<>>, <<"cart">>}

\* the requests in order, each with the call of scan_url it was issued during
Timeline(nav, clicks) ==
    [i \in 1..Len(nav) |-> [during |-> "goto", url |-> nav[i]]]
    \o [i \in 1..Len(clicks) |-> [during |-> "click", url |-> clicks[i]]]

\* network_requests: capture_request is registered by page.on inside
\* find_checkout_urls, after page.goto and page.content and before the clicks
Captured(timeline) ==
    LET seen == SelectSeq(timeline, LAMBDA r : r.during = "click")
    IN  [i \in 1..Len(seen) |-> [url |-> seen[i].url, method |-> "GET"]]

\* the value a call returns
Outcome(techs, rules, e) == [technologies |-> techs, fired |-> rules, error |-> e]

\* the single-call variables while a request is modelled
CallIdle ==
    /\ unit = "none"
    /\ registry = TECH_PATTERNS
    /\ bundle = NoBundle
    /\ js_globals = {}
    /\ budget = 0
    /\ tries = 0
    /\ cpc = "idle"
    /\ fault = "none"
    /\ detected = <<>>
    /\ waits = <<>>
    /\ returned = <<>>
    /\ overrides = {}
    /\ landed = NoLanding
    /\ requests = <<>>
    /\ network_insights = <<>>
    /\ errors = <<>>

(***************************************************************************)
(* State                                                                   *)
(***************************************************************************)
\* tasks of asyncio.gather: the root url and the sliced checkout urls
VisitIds == 1..(FanoutLimit + 1)

\* one browser, context and page for all tasks and attempts
VisitHandleShared(v, a) == [owner |-> "detect_technologies", task |-> 0, attempt |-> 0]

\* the browser, context and page an attempt of a task creates
VisitHandle(v, a) == [owner |-> "detect_technologies", task |-> v, attempt |-> a]
LinkHandle == [owner |-> "link_analysis", task |-> 0, attempt |-> 0]
ScanHandle == [owner |-> "scan_url", task |-> 0, attempt |-> 0]

Pending == [kind |-> "pending", url |-> <<>>, technologies |-> {}, error |-> None]
\* the dict detect_technologies returns
Dict(u, t, e) == [kind |-> "dict", url |-> u, technologies |-> t, error |-> e]
\* what a call returns that runs off the end of the for loop
ReturnedNone == [kind |-> "None", url |-> <<>>, technologies |-> {}, error |-> None]

NoResponse == [status |-> 0, url |-> <<>>, technologies |-> {}, error |-> None]
\* raise HTTPException(status_code=400), or an exception escaping the handler
HttpError(code) == [status |-> code, url |-> <<>>, technologies |-> {}, error |-> None]
\* DetectionResponse(...) returned by the handler
Ok(u, t, e) == [status |-> 200, url |-> u, technologies |-> t, error |-> e]

TypeOK ==
    /\ prog \in {"app", "main"}
    /\ pc \in {"gatecheck", "sitemap", "robots", "link_connect", "link_setup",
               "link_try", "link_close", "link_except", "gather", "visits",
               "scan_connect", "scan_page", "done"}
    /\ sitemap_idx \in DOMAIN sitemap_urls
    /\ vpc \in [VisitIds -> {"idle", "connect", "page", "done"}]
    /\ attempt \in [VisitIds -> 0..max_retries]
    /\ technologies \in [VisitIds -> SUBSET Techs]
    /\ closed \subseteq acquired
    /\ connect_failed \in Nat
    /\ navigated \in BOOLEAN
    /\ response.status \in {0, 200, 400, 500}
    /\ unit \in {"none", "app", "main", "detectors", "matchers"}
    /\ registry \in {TECH_PATTERNS, MAIN_TECH_PATTERNS}
    /\ bundle \in Bundles \cup {NoBundle}
    /\ budget \in 0..MaxRetriesArg
    /\ tries \in 0..MaxRetriesArg
    /\ cpc \in {"idle", "try", "scan", "except", "call", "done",
               "match_app", "match_main", "match_detectors"}
    /\ fault \in AppFaults \cup MainFaults
    /\ Len(waits) <= tries
    /\ overrides \subseteq DocumentAtGoto
    /\ landed \in Responses
    /\ Len(errors) <= 1
    /\ Len(network_insights) <= Len(requests)

InitWith(inputs, progs) ==
    /\ prog \in progs
    /\ raw \in inputs
    /\ url = <<>>
    /\ pc = "gatecheck"
    /\ sitemap_idx = 1
    /\ checkout_urls = <<>>
    /\ all_urls = <<>>
    /\ vpc = [v \in VisitIds |-> "idle"]
    /\ attempt = [v \in VisitIds |-> 0]
    /\ technologies = [v \in VisitIds |-> {}]
    /\ results = [v \in VisitIds |-> Pending]
    /\ acquired = {}
    /\ closed = {}
    /\ connect_failed = 0
    /\ fetched = {}
    /\ navigated = FALSE
    /\ response = NoResponse
    /\ CallIdle

Init == InitWith(InputUrls, {"app", "main"})

\* every short url parameter; the validation is the same code in both modules
InitGate == InitWith(RawInputs, {"main"}) \/ InitWith(InputUrls, {"app"})

(***************************************************************************)
(* gatecheck (app.py and main.py)                                          *)
(***************************************************************************)
gatecheck ==
    /\ pc = "gatecheck"
    /\ url' = Normalise(raw)
    /\ IF InvalidUrl(Normalise(raw))
       THEN /\ response' = HttpError(400)
            /\ pc' = "done"
       ELSE /\ response' = response
            /\ pc' = IF prog = "app" THEN "sitemap" ELSE "scan_connect"
    /\ UNCHANGED <<call, prog, raw, sitemap_idx, checkout_urls, all_urls, vpc, attempt,
                   technologies, results, acquired, closed, connect_failed,
                   fetched, navigated>>

\* an exception that leaves gatecheck: the framework answers 500
Raise ==
    /\ response' = HttpError(500)
    /\ pc' = "done"

(***************************************************************************)
(* find_checkout_urls and the filter on its result (app.py)                *)
(***************************************************************************)
\* return checkout_urls; the http filter; if not checkout_urls: link analysis
FindReturns(found) ==
    /\ checkout_urls' = OnlyHttp(found)
    /\ pc' = IF OnlyHttp(found) = <<>> THEN "link_connect" ELSE "gather"

\* the loop over sitemap_urls without the break
SitemapIterationNoBreak(matches) ==
    LET found == checkout_urls \o matches
    IN  IF sitemap_idx < Len(sitemap_urls)
        THEN /\ sitemap_idx' = sitemap_idx + 1
             /\ checkout_urls' = found
             /\ UNCHANGED pc
        ELSE IF found # <<>>
        THEN FindReturns(found) /\ UNCHANGED sitemap_idx
        ELSE /\ pc' = "robots"
             /\ UNCHANGED <<sitemap_idx, checkout_urls>>

\* one iteration of the loop over sitemap_urls, matches = <<>> on an exception
SitemapIteration(matches) ==
    LET found == checkout_urls \o matches
    IN  IF found # <<>>
        THEN FindReturns(found) /\ UNCHANGED sitemap_idx
        ELSE IF sitemap_idx < Len(sitemap_urls)
        THEN /\ sitemap_idx' = sitemap_idx + 1
             /\ UNCHANGED <<pc, checkout_urls>>
        ELSE /\ pc' = "robots"
             /\ UNCHANGED <<sitemap_idx, checkout_urls>>

FetchSitemap ==
    /\ pc = "sitemap"
    /\ fetched' = fetched \cup {sitemap_urls[sitemap_idx]}
    /\ \/ SitemapIteration(<<>>)
       \/ \E body \in SitemapBodies : SitemapIteration(SitemapMatches(body))
    /\ UNCHANGED <<call, prog, raw, url, all_urls, vpc, attempt, technologies, results,
                   acquired, closed, connect_failed, navigated, response>>

FetchRobots ==
    /\ pc = "robots"
    /\ fetched' = fetched \cup {"robots.txt"}
    /\ \/ FindReturns(checkout_urls)
       \/ \E body \in RobotsBodies : FindReturns(RobotsMatches(body, url))
    /\ UNCHANGED <<call, prog, raw, url, sitemap_idx, all_urls, vpc, attempt, technologies,
                   results, acquired, closed, connect_failed, navigated, response>>

(***************************************************************************)
(* Link analysis fallback of detect_technologies_with_checkout (app.py)    *)
(***************************************************************************)
\* p.chromium.connect_over_cdp(...), outside any try
LinkConnect ==
    /\ pc = "link_connect"
    /\ \/ /\ acquired' = acquired \cup {LinkHandle}
          /\ pc' = "link_setup"
          /\ UNCHANGED <<connect_failed, response>>
       \/ /\ connect_failed' = connect_failed + 1
          /\ Raise
          /\ UNCHANGED acquired
    /\ UNCHANGED <<call, prog, raw, url, sitemap_idx, checkout_urls, all_urls, vpc, attempt,
                   technologies, results, closed, fetched, navigated>>

\* new_context, stealth_async, new_page, page.evaluate: still outside the try
LinkSetup ==
    /\ pc = "link_setup"
    /\ \/ pc' = "link_try" /\ UNCHANGED response
       \/ Raise
    /\ UNCHANGED <<call, prog, raw, url, sitemap_idx, checkout_urls, all_urls, vpc, attempt,
                   technologies, results, acquired, closed, connect_failed, fetched,
                   navigated>>

\* the try body up to the assignment of checkout_urls, on a page that loaded
\* and holds the elements links
LinkTryOn(links) ==
    /\ pc = "link_try"
    /\ navigated' = TRUE
    /\ checkout_urls' = LinkMatches(links)
    /\ pc' = "link_close"
    /\ UNCHANGED <<call, prog, raw, url, sitemap_idx, all_urls, vpc, attempt, technologies,
                   results, acquired, closed, connect_failed, fetched, response>>

\* the try body up to the assignment of checkout_urls
LinkTry ==
    \/ /\ pc = "link_try"
       /\ navigated' = TRUE
       /\ pc' = "link_except"
       /\ UNCHANGED <<call, prog, raw, url, sitemap_idx, checkout_urls, all_urls, vpc,
                      attempt, technologies, results, acquired, closed, connect_failed,
                      fetched, response>>
    \/ \E links \in LinkLists : LinkTryOn(links)

\* await browser.close() as the last statement of the try body
LinkClose ==
    /\ pc = "link_close"
    /\ \/ closed' = closed \cup {LinkHandle} /\ pc' = "gather"
       \/ pc' = "link_except" /\ UNCHANGED closed
    /\ UNCHANGED <<call, prog, raw, url, sitemap_idx, checkout_urls, all_urls, vpc, attempt,
                   technologies, results, acquired, connect_failed, fetched, navigated,
                   response>>

\* except Exception: await browser.close()
LinkExcept ==
    /\ pc = "link_except"
    /\ \/ /\ closed' = closed \cup {LinkHandle}
          /\ pc' = "gather"
          /\ UNCHANGED response
       \/ Raise /\ UNCHANGED closed
    /\ UNCHANGED <<call, prog, raw, url, sitemap_idx, checkout_urls, all_urls, vpc, attempt,
                   technologies, results, acquired, connect_failed, fetched, navigated>>

(***************************************************************************)
(* asyncio.gather over detect_technologies(u) for u in all_urls (app.py)   *)
(***************************************************************************)
\* the list without the slice
VisitListUnsliced(root, found) == <<root>> \o found
\* all_urls = [url] + checkout_urls[:2]
VisitList(root, found) == <<root>> \o Take(found, FanoutLimit)

\* gather over the checkout urls alone
GatherTasksWithoutRoot(n) ==
    [v \in VisitIds |-> IF 1 < v /\ v <= n THEN "connect" ELSE "idle"]

\* one task per entry of all_urls; the tasks gather creates take their first
\* step in list order, in one turn of the event loop, before any is resumed
GatherTasks(n) == [v \in VisitIds |-> IF v <= n THEN "connect" ELSE "idle"]

Gather ==
    /\ pc = "gather"
    /\ all_urls' = VisitList(url, checkout_urls)
    /\ vpc' = GatherTasks(Len(VisitList(url, checkout_urls)))
    /\ pc' = "visits"
    /\ UNCHANGED <<call, prog, raw, url, sitemap_idx, checkout_urls, attempt, technologies,
                   results, acquired, closed, connect_failed, fetched, navigated,
                   response>>

(***************************************************************************)
(* detect_technologies(url, max_retries=2) (app.py)                        *)
(***************************************************************************)
\* return: the task is done; its locals are gone
Return(v, value) ==
    /\ results' = [results EXCEPT ![v] = value]
    /\ vpc' = [vpc EXCEPT ![v] = "done"]
    /\ technologies' = [technologies EXCEPT ![v] = {}]
    /\ UNCHANGED attempt

\* the handler with one attempt more than max_retries
OnExceptionOneMore(v, e, techs) ==
    IF attempt[v] = max_retries
    THEN Return(v, Dict(all_urls[v], {}, e))
    ELSE /\ attempt' = [attempt EXCEPT ![v] = @ + 1]
         /\ vpc' = [vpc EXCEPT ![v] = "connect"]
         /\ technologies' = [technologies EXCEPT ![v] = techs]
         /\ UNCHANGED results

\* the handler starting the loop over whenever an attempt fails
OnExceptionStartsOver(v, e, techs) ==
    /\ attempt' = [attempt EXCEPT ![v] = 0]
    /\ vpc' = [vpc EXCEPT ![v] = "connect"]
    /\ technologies' = [technologies EXCEPT ![v] = techs]
    /\ UNCHANGED results

\* the handler returning the list technologies with the error
OnExceptionKeepsFound(v, e, techs) ==
    IF attempt[v] = max_retries - 1
    THEN Return(v, Dict(all_urls[v], techs, e))
    ELSE /\ attempt' = [attempt EXCEPT ![v] = @ + 1]
         /\ vpc' = [vpc EXCEPT ![v] = "connect"]
         /\ technologies' = [technologies EXCEPT ![v] = techs]
         /\ UNCHANGED results

\* except Exception as e, entered with the value technologies has by then
OnException(v, e, techs) ==
    IF attempt[v] = max_retries - 1
    THEN Return(v, Dict(all_urls[v], {}, e))
    ELSE IF attempt[v] + 1 < max_retries
    THEN /\ attempt' = [attempt EXCEPT ![v] = @ + 1]
         /\ vpc' = [vpc EXCEPT ![v] = "connect"]
         /\ technologies' = [technologies EXCEPT ![v] = techs]
         /\ UNCHANGED results
    ELSE Return(v, ReturnedNone)

\* async with async_playwright(); connect_over_cdp
Connect(v) ==
    /\ pc = "visits"
    /\ vpc[v] = "connect"
    /\ \/ /\ acquired' = acquired \cup {VisitHandle(v, attempt[v])}
          /\ vpc' = [vpc EXCEPT ![v] = "page"]
          /\ UNCHANGED <<attempt, technologies, results, connect_failed>>
       \/ /\ connect_failed' = connect_failed + 1
          /\ OnException(v, "connect error", technologies[v])
          /\ UNCHANGED acquired
    /\ UNCHANGED <<call, prog, raw, url, pc, sitemap_idx, checkout_urls, all_urls, closed,
                   fetched, navigated, response>>

\* the rest of the try body: context and page, goto, interaction, collection,
\* the scan loop, browser.close() and the return
Page(v) ==
    /\ pc = "visits"
    /\ vpc[v] = "page"
    /\ \/ \* new_context, stealth_async, new_page or page.evaluate raises
          /\ OnException(v, "playwright error", technologies[v])
          /\ UNCHANGED <<closed, navigated>>
       \/ \* page.goto raises (timeout, network error)
          /\ navigated' = TRUE
          /\ OnException(v, "navigation error", technologies[v])
          /\ UNCHANGED closed
       \/ \* not response or response.status >= 400
          /\ navigated' = TRUE
          /\ OnException(v, "Failed to load URL", technologies[v])
          /\ UNCHANGED closed
       \/ \* an interaction or an evaluation after the load raises
          /\ navigated' = TRUE
          /\ OnException(v, "playwright error", technologies[v])
          /\ UNCHANGED closed
       \/ \* the page is scanned, then browser.close() returns or raises
          \E page \in Pages :
              LET techs == technologies[v] \cup ScanContent(page)
              IN  /\ navigated' = TRUE
                  /\ \/ /\ closed' = closed \cup {VisitHandle(v, attempt[v])}
                        /\ Return(v, Dict(all_urls[v], techs, None))
                     \/ /\ OnException(v, "playwright error", techs)
                        /\ UNCHANGED closed
    /\ UNCHANGED <<call, prog, raw, url, pc, sitemap_idx, checkout_urls, all_urls, acquired,
                   connect_failed, fetched, response>>

(***************************************************************************)
(* Aggregation of detect_technologies_with_checkout (app.py)               *)
(***************************************************************************)
HasTechnologies(r) == r.kind = "dict" /\ r.technologies # {}

\* an aggregation that returns the first failed result, if there is one
ChosenFailureFirst(res, n, root) ==
    IF \E i \in 1..n : res[i].error # None
    THEN res[CHOOSE i \in 1..n : /\ res[i].error # None
                                 /\ \A j \in 1..(i - 1) : res[j].error = None]
    ELSE res[1]

\* the aggregation returning the last result with technologies
ChosenLast(res, n, root) ==
    IF \E i \in 1..n : HasTechnologies(res[i])
    THEN res[CHOOSE i \in 1..n : /\ HasTechnologies(res[i])
                                 /\ \A j \in (i + 1)..n : ~HasTechnologies(res[j])]
    ELSE IF res[1].kind = "dict" THEN res[1]
    ELSE Dict(root, {}, "No technologies detected")

\* the for loop over results and the fallback return
Chosen(res, n, root) ==
    IF \E i \in 1..n : HasTechnologies(res[i])
    THEN res[CHOOSE i \in 1..n : /\ HasTechnologies(res[i])
                                 /\ \A j \in 1..(i - 1) : ~HasTechnologies(res[j])]
    ELSE IF res[1].kind = "dict" THEN res[1]
    ELSE Dict(root, {}, "No technologies detected")

Aggregate ==
    /\ pc = "visits"
    /\ \A v \in 1..Len(all_urls) : vpc[v] = "done"
    /\ LET r == Chosen(results, Len(all_urls), url)
       IN  response' = Ok(r.url, r.technologies, r.error)
    /\ pc' = "done"
    /\ UNCHANGED <<call, prog, raw, url, sitemap_idx, checkout_urls, all_urls, vpc, attempt,
                   technologies, results, acquired, closed, connect_failed, fetched,
                   navigated>>

(***************************************************************************)
(* scan_url (main.py)                                                      *)
(***************************************************************************)
\* the return of scan_url and of gatecheck: errors if errors else None
ScanReturns(techs, errs) ==
    /\ response' = Ok(url, techs, IF errs = <<>> THEN None ELSE errs)
    /\ pc' = "done"

ScanConnect ==
    /\ pc = "scan_connect"
    /\ \/ /\ acquired' = acquired \cup {ScanHandle}
          /\ pc' = "scan_page"
          /\ UNCHANGED <<connect_failed, response>>
       \/ /\ connect_failed' = connect_failed + 1
          /\ ScanReturns({}, <<"Browser error">>)
          /\ UNCHANGED acquired
    /\ UNCHANGED <<call, prog, raw, url, sitemap_idx, checkout_urls, all_urls, vpc, attempt,
                   technologies, results, closed, fetched, navigated>>

ScanPage ==
    /\ pc = "scan_page"
    /\ \/ \* new_context, stealth_async, new_page or page.evaluate raises
          /\ ScanReturns({}, <<"Browser error">>)
          /\ UNCHANGED <<closed, navigated>>
       \/ \* page.goto raises: the inner except returns
          /\ navigated' = TRUE
          /\ ScanReturns({}, <<"Navigation error">>)
          /\ UNCHANGED closed
       \/ \* not response or response.status >= 400: return inside the try
          /\ navigated' = TRUE
          /\ ScanReturns({}, <<"Failed to load URL">>)
          /\ UNCHANGED closed
       \/ \* the interaction or page.content() raises
          /\ navigated' = TRUE
          /\ ScanReturns({}, <<"Browser error">>)
          /\ UNCHANGED closed
       \/ \* technologies assigned, then find_checkout_urls or a close raises
          \E page \in Pages :
              /\ navigated' = TRUE
              /\ ScanReturns(MainDetect(page), <<"Browser error">>)
              /\ UNCHANGED closed
       \/ \* everything succeeds: context.close(), browser.close()
          \E page \in Pages :
              /\ navigated' = TRUE
              /\ closed' = closed \cup {ScanHandle}
              /\ ScanReturns(MainDetect(page), <<>>)
    /\ UNCHANGED <<call, prog, raw, url, sitemap_idx, checkout_urls, all_urls, vpc, attempt,
                   technologies, results, acquired, connect_failed, fetched>>

(***************************************************************************)
(* One call of detect_technologies(url, max_retries) (app.py)              *)
(***************************************************************************)
\* the try body from the new page to the evaluation of the globals: page.goto
\* raises, or its response fails the status check, or the page is collected
AppAttempt ==
    /\ unit = "app"
    /\ cpc = "try"
    /\ \/ \E d \in {DocumentAtGoto, DocumentAfterGoto} :
              /\ fault' = "goto"
              /\ overrides' = d
              /\ landed' = NoLanding
              /\ bundle' = NoBundle
              /\ js_globals' = {}
              /\ cpc' = "except"
       \/ \E r \in Responses \ Loaded :
              /\ fault' = "status"
              /\ overrides' = DocumentAfterGoto
              /\ landed' = r
              /\ bundle' = NoBundle
              /\ js_globals' = {}
              /\ cpc' = "except"
       \/ \E f \in AppFaults \ {"goto", "status"}, r \in Loaded, b \in Bundles,
             g \in AppProbes :
              /\ fault' = f
              /\ overrides' = DocumentAfterGoto
              /\ landed' = r
              /\ bundle' = b
              /\ js_globals' = IF f \in ReachesScan THEN g ELSE {}
              /\ cpc' = IF f \in ReachesScan THEN "scan" ELSE "except"
    /\ UNCHANGED <<request, unit, registry, budget, tries, detected, waits, returned,
                   requests, network_insights, errors>>

\* the scan loop, technologies = list(set(technologies)), browser.close(), return
AppScan ==
    /\ unit = "app"
    /\ cpc = "scan"
    /\ \E l \in ListOfSet(detected \o ScanLoop(registry, items(registry),
                                               AllContent(bundle), js_globals)) :
           /\ detected' = l
           /\ IF fault = "close"
              THEN cpc' = "except" /\ UNCHANGED returned
              ELSE /\ returned' = Append(returned, Outcome(l, <<>>, None))
                   /\ cpc' = "done"
    /\ registry' = RegistryAfterScan(registry)
    /\ UNCHANGED <<request, unit, bundle, js_globals, budget, tries, fault, waits,
                   overrides, landed, requests, network_insights, errors>>

\* except Exception as e: return on the last attempt, sleep before the next
AppExcept ==
    /\ unit = "app"
    /\ cpc = "except"
    /\ IF tries = budget - 1
       THEN /\ returned' = Append(returned, Outcome(<<>>, <<>>, fault))
            /\ cpc' = "done"
            /\ UNCHANGED <<tries, waits>>
       ELSE /\ waits' = Append(waits, RetrySleep)
            /\ tries' = tries + 1
            /\ cpc' = "try"
            /\ UNCHANGED returned
    /\ UNCHANGED <<request, unit, registry, bundle, js_globals, budget, fault, detected,
                   overrides, landed, requests, network_insights, errors>>

(***************************************************************************)
(* scan_url from the loaded page on (main.py)                              *)
(***************************************************************************)
\* detect_technologies, find_checkout_urls, the outer except and the return
MainScan ==
    /\ unit = "main"
    /\ cpc = "try"
    /\ \/ \* not response or response.status >= 400: return inside the try
          \E r \in Responses \ Loaded, nav \in NavRequests :
              /\ fault' = "status"
              /\ bundle' = NoBundle
              /\ js_globals' = {}
              /\ detected' = <<>>
              /\ errors' = Append(errors, "Failed to load URL")
              /\ returned' = Append(returned, Outcome(<<>>, <<>>, "Failed to load URL"))
              /\ landed' = r
              /\ requests' = Timeline(nav, <<>>)
              /\ network_insights' = <<>>
       \/ \E f \in MainFaults, b \in Bundles, g \in MainProbes, r \in Loaded,
             nav \in NavRequests, clicks \in ClickRequests :
              LET found == IF f = "js_globals" THEN <<>>
                           ELSE MainDetectList(registry, b.html, g)
                  raised == f \in {"js_globals", "inner_text"}
                  timeline == Timeline(nav, IF raised THEN <<>> ELSE clicks)
              IN  /\ fault' = f
                  /\ bundle' = b
                  /\ js_globals' = IF f = "js_globals" THEN {} ELSE g
                  /\ detected' = found
                  /\ errors' = IF raised THEN Append(errors, "Browser error") ELSE errors
                  /\ returned' = Append(returned,
                                        Outcome(found, <<>>,
                                                IF raised THEN "Browser error" ELSE None))
                  /\ landed' = r
                  /\ requests' = timeline
                  /\ network_insights' = IF raised THEN <<>> ELSE Captured(timeline)
    /\ overrides' = DocumentAfterGoto
    /\ registry' = RegistryAfterScan(registry)
    /\ cpc' = "done"
    /\ UNCHANGED <<request, unit, budget, tries, waits>>

(***************************************************************************)
(* detect_technologies_from_text(html, js_globals, network_snippets),      *)
(* called twice with the same argument objects (detectors.py)              *)
(***************************************************************************)
DetectorsCall ==
    /\ unit = "detectors"
    /\ cpc = "call"
    /\ LET text == CombinedText(bundle.html, bundle.network_snippets)
       IN  \E r \in ResultDicts(registry, text, js_globals) :
               returned' = Append(returned,
                                  Outcome(ResultKeys(registry, text, js_globals), r, None))
    /\ js_globals' = GlobalsAfterGet(js_globals, registry)
    /\ registry' = RegistryAfterScan(registry)
    /\ cpc' = IF Len(returned) = 1 THEN "done" ELSE "call"
    /\ UNCHANGED <<request, unit, bundle, budget, tries, fault, detected, waits,
                   overrides, landed, requests, network_insights, errors>>

(***************************************************************************)
(* The three matchers on the same html and the same probe result           *)
(***************************************************************************)
\* a page whose only content is the html
HtmlOnly(html) == Evidence(html, <<>>, <<>>, <<>>, <<>>)

\* the scan loop of app.py and technologies = list(set(technologies))
MatchApp ==
    /\ unit = "matchers"
    /\ cpc = "match_app"
    /\ \E l \in ListOfSet(ScanLoop(TECH_PATTERNS, items(TECH_PATTERNS),
                                   AllContent(HtmlOnly(bundle.html)), js_globals)) :
           returned' = Append(returned, Outcome(l, <<>>, None))
    /\ cpc' = "match_main"
    /\ UNCHANGED <<request, unit, registry, bundle, js_globals, budget, tries, fault,
                   detected, waits, overrides, landed, requests, network_insights, errors>>

\* detect_technologies of main.py
MatchMain ==
    /\ unit = "matchers"
    /\ cpc = "match_main"
    /\ returned' = Append(returned,
                          Outcome(MainDetectList(MAIN_TECH_PATTERNS, bundle.html, js_globals),
                                  <<>>, None))
    /\ cpc' = "match_detectors"
    /\ UNCHANGED <<request, unit, registry, bundle, js_globals, budget, tries, fault,
                   detected, waits, overrides, landed, requests, network_insights, errors>>

\* detect_technologies_from_text(html, js_globals, [])
MatchDetectors ==
    /\ unit = "matchers"
    /\ cpc = "match_detectors"
    /\ LET text == CombinedText(bundle.html, <<>>)
       IN  returned' = Append(returned,
                              Outcome(ResultKeys(registry, text, js_globals), <<>>, None))
    /\ cpc' = "done"
    /\ UNCHANGED <<request, unit, registry, bundle, js_globals, budget, tries, fault,
                   detected, waits, overrides, landed, requests, network_insights, errors>>

(***************************************************************************)
(* Specification                                                           *)
(***************************************************************************)
Next ==
    \/ gatecheck
    \/ FetchSitemap
    \/ FetchRobots
    \/ LinkConnect
    \/ LinkSetup
    \/ LinkTry
    \/ LinkClose
    \/ LinkExcept
    \/ Gather
    \/ \E v \in VisitIds : Connect(v)
    \/ \E v \in VisitIds : Page(v)
    \/ Aggregate
    \/ ScanConnect
    \/ ScanPage

Spec == Init /\ [][Next]_vars

SpecGate == InitGate /\ [][Next]_vars

(***************************************************************************)
(* A single call of one of the three detection functions                   *)
(***************************************************************************)
\* the request variables while a single call is modelled
RequestIdle(at) ==
    /\ prog = "app"
    /\ raw = <<>>
    /\ pc = at
    /\ sitemap_idx = 1
    /\ all_urls = <<>>
    /\ vpc = [v \in VisitIds |-> "idle"]
    /\ attempt = [v \in VisitIds |-> 0]
    /\ technologies = [v \in VisitIds |-> {}]
    /\ results = [v \in VisitIds |-> Pending]
    /\ acquired = {}
    /\ closed = {}
    /\ connect_failed = 0
    /\ fetched = {}
    /\ navigated = FALSE
    /\ response = NoResponse

InitCall ==
    /\ RequestIdle("done")
    /\ url = <<>>
    /\ checkout_urls = <<>>
    /\ unit \in {"app", "main", "detectors"}
    /\ registry \in CASE unit = "app" -> {TECH_PATTERNS}
                      [] unit = "main" -> {MAIN_TECH_PATTERNS}
                      [] OTHER -> {TECH_PATTERNS, MAIN_TECH_PATTERNS}
    /\ bundle \in IF unit = "detectors" THEN Bundles ELSE {NoBundle}
    /\ js_globals \in IF unit = "detectors" THEN DetectorGlobals ELSE {{}}
    /\ budget \in IF unit = "app" THEN 1..MaxRetriesArg ELSE {1}
    /\ tries = 0
    /\ cpc = IF unit = "detectors" THEN "call" ELSE "try"
    /\ fault = "none"
    /\ detected = <<>>
    /\ waits = <<>>
    /\ returned = <<>>
    /\ overrides = {}
    /\ landed = NoLanding
    /\ requests = <<>>
    /\ network_insights = <<>>
    /\ errors = <<>>

NextCall ==
    \/ AppAttempt
    \/ AppScan
    \/ AppExcept
    \/ MainScan
    \/ DetectorsCall

SpecCall == InitCall /\ [][NextCall]_vars

\* the three matchers called in turn with one html and one probe result;
\* registry is the TECH_PATTERNS detectors.py imports
InitMatch ==
    /\ RequestIdle("done")
    /\ url = <<>>
    /\ checkout_urls = <<>>
    /\ unit = "matchers"
    /\ registry \in {TECH_PATTERNS, MAIN_TECH_PATTERNS}
    /\ bundle \in Bundles
    /\ js_globals \in AppProbes \cup MainProbes
    /\ budget = 1
    /\ tries = 0
    /\ cpc = "match_app"
    /\ fault = "none"
    /\ detected = <<>>
    /\ waits = <<>>
    /\ returned = <<>>
    /\ overrides = {}
    /\ landed = NoLanding
    /\ requests = <<>>
    /\ network_insights = <<>>
    /\ errors = <<>>

NextMatch ==
    \/ MatchApp
    \/ MatchMain
    \/ MatchDetectors

SpecMatch == InitMatch /\ [][NextMatch]_vars

(***************************************************************************)
(* The slice of all_urls, for every list the discovery may hand over       *)
(***************************************************************************)
InitFanout ==
    /\ RequestIdle("gather")
    /\ url = <<"https://", "a", "/">>
    /\ checkout_urls \in SeqsUpTo({CheckoutPage, CrossOriginCart}, MaxFound)
    /\ CallIdle

SpecFanout == InitFanout /\ [][Gather]_vars

(***************************************************************************)
(* Properties                                                              *)
(***************************************************************************)
Responded == pc = "done"
AppReport == prog = "app" /\ pc = "done" /\ response.status = 200
Visited == 1..Len(all_urls)
Depth1 == VisitIds \ {1}
Running(v) == vpc[v] \in {"connect", "page"}

\* C1: every browser handle acquired during a request (by detect_technologies,
\* by the link analysis, by scan_url) has been closed when the request
\* returns, whatever the exit path.
C1_BrowsersClosedOnReturn == Responded => acquired \subseteq closed

\* C2: the visit list built from the root url and the discovered checkout urls
\* holds no url twice.
C2_NoUrlVisitedTwice ==
    \A i, j \in DOMAIN all_urls : i # j => all_urls[i] # all_urls[j]

\* C3 as stated: while detection on a depth-1 url is under way or over,
\* detection on the root url is over; the root never runs beside a depth-1 visit.
C3_RootCompletesBeforeDepth1 ==
    \A v \in Depth1 : vpc[v] # "idle" => vpc[1] = "done"

\* C3 as amended: detection on a depth-1 url starts only once checkout
\* discovery is over and never before detection on the root url has started;
\* the root visit is not awaited first.
C3_RootStartsNoLaterThanDepth1 ==
    \A v \in Depth1 :
        vpc[v] # "idle" => (vpc[1] # "idle" /\ pc \in {"visits", "done"})

\* C3 witness: the root visit and a depth-1 visit both hold an open browser.
C3_Witness ==
    /\ pc = "visits"
    /\ vpc[1] = "page"
    /\ vpc[2] = "page"

\* C4: the report holds every technology detected on the root url or on any
\* visited depth-1 url.
C4_ReportHoldsAllTechnologies ==
    AppReport =>
        \A v \in Visited : results[v].technologies \subseteq response.technologies

\* C5: if detection on the root url failed on all its attempts, the report
\* carries an error, whatever the depth-1 urls returned.
C5_RootFailureReported ==
    (AppReport /\ results[1].error # None) => response.error # None

\* C6: every url of the visit list is visited to a result even when another
\* one failed, and with a successful root visit the report carries no error,
\* whatever failed at depth 1.
C6_Depth1FailureAbsorbed ==
    AppReport =>
        /\ \A v \in Visited : results[v].kind = "dict"
        /\ (results[1].error = None => response.error = None)

\* C6 witness: the root succeeded without technologies, the first checkout url
\* failed, and the report returns what the second checkout url detected.
C6_Witness ==
    /\ AppReport
    /\ Len(all_urls) = 3
    /\ all_urls[2] # all_urls[3]
    /\ results[1].error = None
    /\ results[2].error # None
    /\ results[3].technologies # {}
    /\ response.technologies = results[3].technologies
    /\ response.error = None

\* every connect_over_cdp call of the request raised
AllAcquisitionsFailed == connect_failed > 0 /\ acquired = {}

\* C7: when every browser acquisition of a request failed, the request ends
\* with HTTP 500 and not with a 200 report.
C7_ExhaustionAnswers500 ==
    (Responded /\ AllAcquisitionsFailed) => response.status = 500

\* the url parameter is malformed: prefixed with "https://" when it lacks an
\* http(s) scheme, it parses to no scheme or to no host
Malformed(s) ==
    LET u == IF Len(s) > 0 /\ s[1] \in {"http://", "https://"}
             THEN s ELSE <<"https://">> \o s
    IN  urlparse(u).scheme = "" \/ urlparse(u).netloc = <<>>

\* C8: a request fails (400 or 500) only for a malformed url or when every
\* browser acquisition failed.
C8_OnlyTwoFailures ==
    response.status \in {400, 500} => (Malformed(raw) \/ AllAcquisitionsFailed)

\* C9: a malformed url parameter is answered 400 by gatecheck, and a request
\* answered 400 has fetched nothing, acquired no browser and navigated nowhere.
C9_MalformedRejectedFirst ==
    /\ (pc # "gatecheck" /\ Malformed(raw)) => (Responded /\ response.status = 400)
    /\ response.status = 400 =>
           /\ Malformed(raw)
           /\ fetched = {}
           /\ acquired = {}
           /\ connect_failed = 0
           /\ ~navigated

\* C9 witness: a parameter with an explicit scheme and no host was rejected.
C9_Witness ==
    /\ response.status = 400
    /\ Len(raw) > 1
    /\ raw[1] = "https://"

\* C10: a task makes at most max_retries attempts; it moves to the next attempt
\* only from a running attempt that ends without a result and without having
\* closed its browser; once it has returned it makes no attempt any more.
C10_BoundedRetries ==
    /\ [](\A v \in VisitIds : attempt[v] < max_retries)
    /\ [][\A v \in VisitIds :
            /\ attempt'[v] # attempt[v] =>
                   /\ attempt'[v] = attempt[v] + 1
                   /\ Running(v)
                   /\ vpc'[v] = "connect"
                   /\ results'[v] = Pending
                   /\ VisitHandle(v, attempt[v]) \notin closed'
            /\ vpc[v] = "done" =>
                   /\ vpc'[v] = "done"
                   /\ attempt'[v] = attempt[v]
                   /\ results'[v] = results[v]]_vars

\* C10 witness: a task whose first attempt failed returned the result of its
\* second attempt.
C10_Witness ==
    \E v \in VisitIds :
        /\ vpc[v] = "done"
        /\ attempt[v] = 1
        /\ results[v].kind = "dict"
        /\ results[v].error = None

(***************************************************************************)
(* Properties of a single call                                             *)
(***************************************************************************)
\* the value the call returned last
LastReturned == returned[Len(returned)]

\* the evidence fields the function of the call tests its text rules against
CollectedFields ==
    CASE unit = "app" -> {bundle.html} \cup Range(bundle.script_urls)
                             \cup Range(bundle.inline_scripts) \cup Range(bundle.data_attrs)
      [] unit = "detectors" -> {bundle.html} \cup Range(bundle.network_snippets)
      [] OTHER -> {bundle.html}

\* a text rule of the technology matches inside one of the fields
MatchesInside(tech, fields) ==
    \E i \in DOMAIN registry[tech] : \E field \in fields : Search(registry[tech][i], field)

\* the runtime-global probe of the technology is true
Probed(tech) ==
    IF unit = "detectors" THEN tech \in js_globals
    ELSE tech \in DOMAIN GlobalKey /\ GlobalKey[tech] \in js_globals

\* C11: the waits between successive failed attempts grow: every wait is
\* strictly longer than the wait before it.
C11_WaitsGrow == \A i \in DOMAIN waits : i > 1 => waits[i] > waits[i - 1]

\* C12: when reading a link's text, clicking, extracting the checkout links or
\* evaluating the globals fails on a loaded page, the visit still reports the
\* technologies that the html of that page matches.
C12_CollectionFaultTolerated ==
    (/\ unit \in {"app", "main"}
     /\ cpc = "done"
     /\ fault \in {"inner_text", "click", "checkout_links", "js_globals"})
    => \A tech \in DOMAIN registry :
           MatchesInside(tech, {bundle.html}) => tech \in Range(LastReturned.technologies)

\* C13: every technology name of every returned report is a key of the
\* TECH_PATTERNS of the module that made the report.
C13_NamesAreRegistryKeys ==
    \A k \in DOMAIN returned : Range(returned[k].technologies) \subseteq DOMAIN registry

\* C14: no returned technologies list holds a name twice.
C14_NoDuplicateNames ==
    \A k \in DOMAIN returned : NoDuplicates(returned[k].technologies)

\* C14 witness: two rules of Stripe match and the probe of Stripe is true, so
\* the scan loop appended Stripe three times, and the report holds it once.
C14_Witness ==
    /\ unit = "app"
    /\ cpc = "done"
    /\ tries = 0
    /\ bundle = StripeTwice
    /\ "hasStripe" \in js_globals
    /\ Len(ScanLoop(registry, items(registry), AllContent(bundle), js_globals)) >= 3
    /\ LastReturned.technologies = <<"Stripe">>

\* C15: a first attempt (or a matcher call) reports a technology through a
\* text rule only if a rule of it matches inside one single evidence field.
C15_MatchInsideOneField ==
    (/\ unit \in {"app", "detectors"}
     /\ tries = 0
     /\ returned # <<>>
     /\ LastReturned.error = None)
    => \A tech \in Range(LastReturned.technologies) :
           MatchesInside(tech, CollectedFields) \/ Probed(tech)

\* C16: a technology is in a successful report if and only if one of its text
\* rules matches the content collected for the report or its probe is true.
C16_ReportedIffMatched ==
    (/\ unit \in {"app", "detectors"}
     /\ returned # <<>>
     /\ cpc = "done"
     /\ LastReturned.error = None)
    => \A tech \in DOMAIN registry :
           tech \in Range(LastReturned.technologies)
               <=> (MatchesInside(tech, CollectedFields) \/ Probed(tech))

C19_Depth1SameOrigin ==
    \A i \in DOMAIN all_urls :
        i > 1 => /\ urlparse(all_urls[i]).scheme = urlparse(url).scheme
                 /\ urlparse(all_urls[i]).netloc = urlparse(url).netloc

\* C20: at most 5 depth-1 urls are visited, whatever was discovered, and they
\* are the first discovered, in the order of discovery; a task runs for no
\* other url.
C20_FanoutCapped ==
    pc = "visits"
    => /\ Len(all_urls) - 1 <= 5
       /\ Len(all_urls) - 1 <= Len(checkout_urls)
       /\ Tail(all_urls) = SubSeq(checkout_urls, 1, Len(all_urls) - 1)
       /\ \A v \in VisitIds : vpc[v] # "idle" => v <= Len(all_urls)

\* C20 witness: more than 5 urls were discovered and the first of them run.
C20_Witness ==
    /\ pc = "visits"
    /\ Len(checkout_urls) > 5
    /\ Len(all_urls) > 1
    /\ vpc[2] = "connect"

(***************************************************************************)
(* Properties of the link analysis and of the report                       *)
(***************************************************************************)
\* the href names a page of the origin of root: a relative href, or an
\* absolute one with the scheme and host of root
SameOriginHref(href, root) ==
    /\ href # <<>>
    /\ StartsWithHttp(href) => /\ urlparse(href).scheme = urlparse(root).scheme
                               /\ urlparse(href).netloc = urlparse(root).netloc

\* the url the href names on the page at root
Resolved(href, root) ==
    IF StartsWithHttp(href) THEN href
    ELSE <<root[1]>> \o SubSeq(root, 2, 1 + Len(NetlocOf(Tail(root)))) \o href

\* C21: every same-origin link of the root page, absolute or relative, whose
\* text is a checkout keyword is put on the list of depth-1 visits by the link
\* analysis; and when the root yields no technology and a visited page does,
\* the report holds a technology found at depth 1 under the url of its page.
C21_CheckoutLinkVisited ==
    /\ [][\A links \in LinkLists :
              LinkTryOn(links)
              => \A i \in DOMAIN links :
                     (IsCheckoutText(links[i].text) /\ SameOriginHref(links[i].href, url))
                     => \E k \in 1..FanoutLimit :
                            /\ k <= Len(checkout_urls')
                            /\ checkout_urls'[k] = Resolved(links[i].href, url)]_vars
    /\ [](AppReport /\ results[1].kind = "dict" /\ results[1].technologies = {}
          /\ (\E v \in Visited : results[v].technologies # {})
          => \E v \in Visited \ {1} : /\ response.technologies = results[v].technologies
                                      /\ response.technologies # {}
                                      /\ response.url = all_urls[v])

(***************************************************************************)
(* Properties of one attempt: the page, its document and its requests      *)
(***************************************************************************)
\* C22: in every attempt the overrides installed before page.goto is issued,
\* the stealth patch and the canvas override, are in effect in the document of
\* the target page that page.goto has loaded.
C22_OverridesInEffect ==
    (unit \in {"app", "main"} /\ landed \in Landings) => DocumentAtGoto \subseteq overrides

\* C23: every request the page issued during the navigation to the scanned
\* url is an entry of network_insights when scan_url returns.
C23_NavigationRequestsRecorded ==
    (unit = "main" /\ cpc = "done")
    => \A i \in DOMAIN requests :
           requests[i].during = "goto"
           => \E j \in DOMAIN network_insights : network_insights[j].url = requests[i].url

\* C26: an attempt whose navigation lands on an anti-bot challenge goes on to
\* scan the page: the challenge never sends the attempt to the except branch
\* and never becomes the error of the call.
C26_ChallengeNeverFailsScan ==
    (unit = "app" /\ landed.challenge) => ~(cpc \in {"except", "done"} /\ fault = "status")

\* C27: the technologies a successful attempt of detect_technologies returns
\* are matched by the content that attempt collected or probed true in it;
\* nothing found by an earlier, failed attempt is among them.
C27_OnlyThisAttempt ==
    (/\ unit = "app"
     /\ cpc = "done"
     /\ LastReturned.error = None)
    => \A tech \in Range(LastReturned.technologies) :
           MatchesInside(tech, {AllContent(bundle)}) \/ Probed(tech)

C25_TimeoutGivesPartialReport ==
    /\ \A v \in VisitIds : results[v].error # "navigation error"
    /\ (prog = "main" /\ Responded /\ response.status = 200)
       => response.error # <<"Navigation error">>

\* C28: the url of the report gatecheck returns is the requested url after
\* scheme normalisation, also when the technologies come from a depth-1 url.
C28_ReportUrlIsRequested ==
    (Responded /\ response.status = 200) => response.url = url

\* C29: whatever the order in which the visits finish, the report is the
\* result of the earliest entry of all_urls whose technologies are not empty,
\* and the result of the root when no entry has any.
C29_EarliestWithTechnologies ==
    AppReport
    => LET hits == {i \in Visited : results[i].technologies # {}}
           first == IF hits = {} THEN 1
                    ELSE CHOOSE i \in hits : \A j \in hits : i <= j
       IN  /\ results[first].kind = "dict"
           /\ response.url = results[first].url
           /\ response.technologies = results[first].technologies
           /\ response.error = results[first].error

\* the root found nothing and both depth-1 visits found different technologies
C29_Witness ==
    /\ AppReport
    /\ Len(all_urls) = 3
    /\ results[1].technologies = {}
    /\ results[2].technologies # {}
    /\ results[3].technologies # {}
    /\ results[2].technologies # results[3].technologies
    /\ response.technologies = results[2].technologies

\* C30: in every result of detect_technologies and in every response of
\* detect_technologies_with_checkout an error comes with no technologies and
\* technologies come with no error.
C30_ErrorExcludesTechnologies ==
    /\ \A v \in VisitIds : results[v].error # None => results[v].technologies = {}
    /\ AppReport => (response.error # None => response.technologies = {})

\* a visit whose last attempt raised has returned its error, next to a visit
\* that returned technologies
C30_Witness ==
    \E v \in VisitIds, w \in VisitIds :
        /\ results[v].kind = "dict" /\ results[v].error = "playwright error"
        /\ results[w].kind = "dict" /\ results[w].technologies # {}

(***************************************************************************)
(* Properties of the checkout-url discovery                                *)
(***************************************************************************)
\* positions of the request after find_checkout_urls has returned
AfterFind == {"link_connect", "link_setup", "link_try", "link_close", "link_except",
              "gather", "visits"}

C32_FailedNavigationNotScanned ==
    (/\ unit \in {"app", "main"}
     /\ fault # "goto"
     /\ cpc # "try" \/ tries > 0
     /\ landed = NoLanding \/ landed.status >= 400)
    => /\ fault = "status"
       /\ bundle = NoBundle
       /\ js_globals = {}
       /\ cpc # "scan"
       /\ cpc = "done" => /\ LastReturned.technologies = <<>>
                          /\ LastReturned.error # None
       /\ (unit = "main" /\ cpc = "done") => errors = <<"Failed to load URL">>

\* an attempt of detect_technologies got a status of 400 or above and the
\* retry loop has gone on to the next attempt
C32_Witness ==
    /\ unit = "app"
    /\ fault = "status"
    /\ landed.status >= 400
    /\ cpc = "try"
    /\ tries >= 1

(***************************************************************************)
(* Properties of the three matchers                                        *)
(***************************************************************************)
\* the technologies whose signatures the three registries hold
SharedTechs == DOMAIN TECH_PATTERNS \cap DOMAIN MAIN_TECH_PATTERNS \cap DOMAIN registry

\* C33: on the same html and the same probe result with the keys of the
\* in-page probe, the scan loop of app.py, detect_technologies of main.py and
\* detect_technologies_from_text report the same names among the technologies
\* all three registries hold.
C33_MatchersAgree ==
    (unit = "matchers" /\ cpc = "done")
    => \A tech \in SharedTechs :
           /\ tech \in Range(returned[1].technologies)
                  <=> tech \in Range(returned[2].technologies)
           /\ tech \in Range(returned[2].technologies)
                  <=> tech \in Range(returned[3].technologies)

(***************************************************************************)
(* Termination of a request                                                *)
(***************************************************************************)
\* the steps a gathered task has left at most: a connect and a page step for
\* each attempt of the retry loop not yet made
VisitRank(v) ==
    IF vpc[v] \in {"idle", "done"} THEN 0
    ELSE 2 * (max_retries - attempt[v]) - (IF vpc[v] = "page" THEN 1 ELSE 0)

RECURSIVE VisitRanks(_)
VisitRanks(n) == IF n = 0 THEN 0 ELSE VisitRank(n) + VisitRanks(n - 1)

\* the steps the gathered tasks and the aggregation take at most
GatherRank == 2 + 2 * max_retries * (FanoutLimit + 1)

\* the steps the request has left at most
Rank ==
    CASE pc = "done" -> 0
      [] pc = "scan_page" -> 1
      [] pc = "scan_connect" -> 2
      [] pc = "visits" -> 1 + VisitRanks(FanoutLimit + 1)
      [] pc = "gather" -> GatherRank
      [] pc = "link_except" -> GatherRank + 1
      [] pc = "link_close" -> GatherRank + 2
      [] pc = "link_try" -> GatherRank + 3
      [] pc = "link_setup" -> GatherRank + 4
      [] pc = "link_connect" -> GatherRank + 5
      [] pc = "robots" -> GatherRank + 6
      [] pc = "sitemap" -> GatherRank + 7 + (Len(sitemap_urls) - sitemap_idx)
      [] pc = "gatecheck" -> GatherRank + 7 + Len(sitemap_urls)

\* C34: a request ends after finitely many steps: every step of the discovery,
\* of the retry loop of a visit and of the aggregation lowers the number of
\* steps left at most, which is never negative, and as long as no response
\* was returned some step can be taken (each external call returns or raises).
C34_RequestTerminates ==
    /\ [][Rank' < Rank]_vars
    /\ [](Rank >= 0 /\ (~Responded => ENABLED Next))

\* every visit of a request with three visits used up its attempts and the
\* request returned
C34_Witness ==
    /\ AppReport
    /\ Len(all_urls) = FanoutLimit + 1
    /\ \A v \in Visited : results[v].error # None /\ attempt[v] = max_retries - 1

====
